---- MODULE Spec2Model ----
(***************************************************************************)
(* A model of rust-ruffer (src/src/main.rs): RuffFixer::run formats and    *)
(* checks a source tree with ruff, groups the reported issues by file,     *)
(* spawns one task per file that reads the file, asks the fix service for  *)
(* one fix per issue in sequence, writes the file back and signals its     *)
(* completion on an mpsc channel which run drains before it returns.       *)
(*                                                                         *)
(* A file content is a string, modelled as a sequence of one-character     *)
(* strings; str::lines is the operator lines.                              *)
(***************************************************************************)
EXTENDS Integers, Sequences, FiniteSets, TLC

VARIABLES
    pc,             \* position of run: "format", "check", "group", "spawn", "drain", "returned"
    result,         \* what run returned: "none" (still running), "Ok", "Err", "Panic"
    format_result,  \* what run_ruff_format returned: "none" (not called yet), "Ok", "Err" (history)
    exit_code,      \* <<c>> once `ruff check` has exited with code c, NoCode before
    issues,         \* Vec<Issue> returned by run_ruff_check, until it is moved into the grouping
    issues_by_file, \* HashMap<String, Vec<Issue>> built by group_issues_by_file
    spawned,        \* filenames for which task::spawn has been called
    tx_held,        \* holders of a Sender clone: "run" and the live tasks
    chan,           \* number of completion messages buffered in the channel
    received,       \* number of messages rx.recv() has returned to run
    task,           \* per file: position of the spawned closure: "none", "body", "send", "exit", "ended"
    state,          \* per file: state of the file's remediation within the closure body
    file_content,   \* per file: the task's local `file_content`
    idx,            \* per file: number of issues of file_issues already iterated
    disk,           \* per file: the content of the file on disk
    reads,          \* per file: the results of the fs::read_to_string calls made, in order (history)
    asked,          \* per file: the issues ask_chatgpt_for_fix was called for, in order (history)
    requests,       \* per file: the fix requests sent, in order (history)
    replies,        \* per file: the service's raw answers, logged by task_fix_response_logged only (history)
    diffs,          \* per file: the print_diff calls made, each with its arguments and output (history)
    responses,      \* per file: the result of each returned ask_chatgpt_for_fix call (history)
    writes,         \* per file: the fs::write calls made, in order (history)
    sent            \* per file: number of completion messages the task has sent (history)

vars == <<pc, result, format_result, exit_code, issues, issues_by_file, spawned,
          tx_held, chan, received, task, state, file_content, idx, disk, reads,
          asked, requests, replies, diffs, responses, writes, sent>>

-----------------------------------------------------------------------------
(* Bounds of the model *)

\* longest issue list the checker reports
MaxIssues == 2
\* largest row the checker reports (rows are 1-indexed)
MaxRow == 1

\* the grouping alone is explored on longer lists of more varied issues
MaxGroupLen == 3
MaxGroupRow == 2

\* the fan-out alone is explored on issues that differ within a file
MaxFixIssues == 2
MaxFixRow == 2

\* print_diff alone is explored on every pair of contents of at most MaxDiffLen characters
MaxDiffLen == 3

\* mpsc::channel(10)
ChannelCap == 10

Files == {"foo.py", "bar.py"}
Messages == {"line too long"}
Codes == {"E501"}

\* the file contents of the model, on disk or returned by the fix service:
\* "", "a\n" and "b\na" (no line, one terminated line, two lines)
Contents == {<<>>, <<"a", "\n">>, <<"b", "\n", "a">>}

NoCode == <<>>
\* exit codes of the checker: clean, issues found, tool failure, killed by a signal (-1)
ExitCodes == {0, 1, 2, -1}

-----------------------------------------------------------------------------
(* struct Issue, struct Location *)

IssuesWithRows(n) == [filename : Files, code : Codes, message : Messages,
                      location : [row : 1..n, column : {1}]]

Issue == IssuesWithRows(MaxRow)

RECURSIVE ListsUpTo(_, _)
ListsUpTo(S, n) ==
    IF n = 0 THEN {<<>>}
    ELSE LET shorter == ListsUpTo(S, n - 1)
         IN  shorter \cup {Append(s, x) : s \in {t \in shorter : Len(t) = n - 1}, x \in S}

\* the well-formed JSON issue arrays the checker may print
IssueLists == ListsUpTo(Issue, MaxIssues)

\* the issue lists on which the grouping alone is explored
GroupInputs == ListsUpTo(IssuesWithRows(MaxGroupRow), MaxGroupLen)

-----------------------------------------------------------------------------
(* str::lines, as used by ask_chatgpt_for_fix and print_diff: the content  *)
(* split at "\n", a final line needing no terminator.                      *)

RECURSIVE LinesFrom(_, _, _)
LinesFrom(s, cur, acc) ==
    IF s = <<>> THEN (IF cur = <<>> THEN acc ELSE Append(acc, cur))
    ELSE IF Head(s) = "\n" THEN LinesFrom(Tail(s), <<>>, Append(acc, cur))
    ELSE LinesFrom(Tail(s), Append(cur, Head(s)), acc)

lines(s) == LinesFrom(s, <<>>, <<>>)

-----------------------------------------------------------------------------
(* group_issues_by_file *)

\* mutant of PushIssue: the issue is put in front of its group (insert(0, issue))
PushIssueFront(acc, issue) ==
    IF issue.filename \in DOMAIN acc
    THEN [acc EXCEPT ![issue.filename] = <<issue>> \o @]
    ELSE acc @@ (issue.filename :> <<issue>>)

\* issues_by_file.entry(issue.filename.clone()).or_insert_with(Vec::new).push(issue)
PushIssue(acc, issue) ==
    IF issue.filename \in DOMAIN acc
    THEN [acc EXCEPT ![issue.filename] = Append(@, issue)]
    ELSE acc @@ (issue.filename :> <<issue>>)

RECURSIVE GroupFrom(_, _)
GroupFrom(rest, acc) ==
    IF rest = <<>> THEN acc
    ELSE GroupFrom(Tail(rest), PushIssue(acc, Head(rest)))

\* the empty HashMap
EmptyMap == [f \in {} |-> <<>>]

group_issues_by_file(list) == GroupFrom(list, EmptyMap)

-----------------------------------------------------------------------------
(* ask_chatgpt_for_fix: the request it builds and the result it makes of   *)
(* the service's answer.                                                   *)

\* mutant of issue_row_content: the row is used as a 0-based index (nth(row))
issue_row_content_zero_based(issue, content) ==
    LET ls == lines(content)
        n  == issue.location.row
    IN  IF n + 1 <= Len(ls) THEN ls[n + 1] ELSE <<>>

\* file_content.lines().nth(issue.location.row as usize - 1).unwrap_or_default()
issue_row_content(issue, content) ==
    LET ls == lines(content)
        n  == issue.location.row - 1
    IN  IF n + 1 <= Len(ls) THEN ls[n + 1] ELSE <<>>

\* the prompt: the issue's message, the offending line, the whole current content
Prompt(issue, content) ==
    [message |-> issue.message,
     line    |-> issue_row_content(issue, content),
     content |-> content]

\* what the service may answer: the request fails in transport, the body is
\* not JSON, or a JSON body arrives with some status, with or without
\* choices[0].message.content
Responses ==
    {[kind |-> "transport_error"], [kind |-> "bad_body"]}
    \cup [kind : {"json"}, success_status : BOOLEAN, has_content : {FALSE}]
    \cup [kind : {"json"}, success_status : BOOLEAN, has_content : {TRUE}, content : Contents]

FixErr == [ok |-> FALSE]
FixOk(c) == [ok |-> TRUE, content |-> c]

\* send().await?, response.json().await?, ...as_str().ok_or_else(..)?, Ok(content)
FixResult(resp) ==
    IF resp.kind = "transport_error" THEN FixErr
    ELSE IF resp.kind = "bad_body" THEN FixErr
    ELSE IF ~resp.has_content THEN FixErr
    ELSE FixOk(resp.content)

-----------------------------------------------------------------------------
(* print_diff: its output as the sequence of the lines printed, a line     *)
(* being its prefix (sign) and the text after it.                          *)

DiffHeaders == <<[sign |-> "--- Original", line |-> <<>>], [sign |-> "+++ Fixed", line |-> <<>>]>>

\* lines.get(i).unwrap_or(&""), i counted from 1
LineAt(ls, i) == IF i <= Len(ls) THEN ls[i] ELSE <<>>

\* mutant of DiffLine: both lines of a differing position are printed, empty or not
DiffLineAlways(o, x) ==
    IF o # x THEN <<[sign |-> "-", line |-> o], [sign |-> "+", line |-> x]>> ELSE <<>>

\* the body of the loop, lines 220-229: what is printed for one position
DiffLine(o, x) ==
    IF o # x
    THEN (IF o # <<>> THEN <<[sign |-> "-", line |-> o]>> ELSE <<>>)
         \o (IF x # <<>> THEN <<[sign |-> "+", line |-> x]>> ELSE <<>>)
    ELSE <<>>

RECURSIVE DiffFrom(_, _, _, _)
DiffFrom(ol, fl, i, max_len) ==
    IF i > max_len THEN <<>>
    ELSE DiffLine(LineAt(ol, i), LineAt(fl, i)) \o DiffFrom(ol, fl, i + 1, max_len)

print_diff(original, fixed) ==
    LET original_lines == lines(original)
        fixed_lines == lines(fixed)
        max_len == IF Len(original_lines) >= Len(fixed_lines)
                   THEN Len(original_lines) ELSE Len(fixed_lines)
    IN  DiffHeaders \o DiffFrom(original_lines, fixed_lines, 1, max_len)

-----------------------------------------------------------------------------
(* The initial state: run has not started, the tree holds some contents.   *)

Init ==
    /\ pc = "format"
    /\ result = "none"
    /\ format_result = "none"
    /\ exit_code = NoCode
    /\ issues = <<>>
    /\ issues_by_file = EmptyMap
    /\ spawned = {}
    /\ tx_held = {}
    /\ chan = 0
    /\ received = 0
    /\ task = [f \in Files |-> "none"]
    /\ state = [f \in Files |-> "NotSpawned"]
    /\ file_content = [f \in Files |-> <<>>]
    /\ idx = [f \in Files |-> 0]
    /\ disk \in [Files -> Contents]
    /\ reads = [f \in Files |-> <<>>]
    /\ asked = [f \in Files |-> <<>>]
    /\ requests = [f \in Files |-> <<>>]
    /\ replies = [f \in Files |-> <<>>]
    /\ diffs = [f \in Files |-> <<>>]
    /\ responses = [f \in Files |-> <<>>]
    /\ writes = [f \in Files |-> <<>>]
    /\ sent = [f \in Files |-> 0]

taskVars == <<task, state, file_content, idx, disk, reads, asked, requests, replies, diffs,
              responses, writes, sent>>
chanVars == <<tx_held, chan, received>>

-----------------------------------------------------------------------------
(* run, lines 40-55: the formatter, then the checker *)

\* mutant of run_ruff_format: the formatter's result is dropped (no `?`)
run_ruff_format_ignored ==
    /\ pc = "format"
    /\ \E ok \in BOOLEAN : format_result' = (IF ok THEN "Ok" ELSE "Err")
    /\ pc' = "check"
    /\ UNCHANGED <<result, exit_code, issues, issues_by_file, spawned>>
    /\ UNCHANGED chanVars
    /\ UNCHANGED taskVars

\* self.run_ruff_format(..)?  -- the process cannot be run or exits with failure: Err
run_ruff_format ==
    /\ pc = "format"
    /\ \E ok \in BOOLEAN :
          IF ok THEN pc' = "check" /\ result' = result /\ format_result' = "Ok"
                ELSE pc' = "returned" /\ result' = "Err" /\ format_result' = "Err"
    /\ UNCHANGED <<exit_code, issues, issues_by_file, spawned>>
    /\ UNCHANGED chanVars
    /\ UNCHANGED taskVars

\* mutant of RuffCheckResult: exit code 0 is not told apart from exit code 1
RuffCheckResultNoClean(code, parsed, list) ==
    IF code = 0 \/ code = 1 THEN (IF parsed THEN [tag |-> "Ok", issues |-> list]
                                            ELSE [tag |-> "Panic"])
    ELSE [tag |-> "Err", code |-> code]

\* mutant of RuffCheckResult: every non-zero exit code is read as "issues found"
RuffCheckResultAnyNonZero(code, parsed, list) ==
    IF code = 0 THEN [tag |-> "Err", code |-> 0]
    ELSE IF parsed THEN [tag |-> "Ok", issues |-> list]
    ELSE [tag |-> "Panic"]

\* run_ruff_check, lines 131-157: Err(0) on exit code 0; on exit code 1 the
\* parsed issues, or a panic when serde_json rejects the payload (.expect);
\* Err(exit_code) otherwise
RuffCheckResult(code, parsed, list) ==
    IF code = 0 THEN [tag |-> "Err", code |-> 0]
    ELSE IF code = 1 THEN (IF parsed THEN [tag |-> "Ok", issues |-> list]
                                     ELSE [tag |-> "Panic"])
    ELSE [tag |-> "Err", code |-> code]

\* the call of run_ruff_check and the match on its result, lines 45-55;
\* launched = FALSE is a checker that cannot be executed (.expect panics)
run_ruff_check ==
    /\ pc = "check"
    /\ \E launched \in BOOLEAN, code \in ExitCodes, parsed \in BOOLEAN, list \in IssueLists :
          LET r == RuffCheckResult(code, parsed, list)
          IN  /\ exit_code' = (IF launched THEN <<code>> ELSE exit_code)
              /\ IF ~launched THEN
                     pc' = "returned" /\ result' = "Panic" /\ issues' = issues
                 ELSE IF r.tag = "Ok" THEN
                     pc' = "group" /\ result' = result /\ issues' = r.issues
                 ELSE IF r.tag = "Panic" THEN
                     pc' = "returned" /\ result' = "Panic" /\ issues' = issues
                 ELSE IF r.code = 0 THEN
                     pc' = "returned" /\ result' = "Ok" /\ issues' = issues
                 ELSE
                     pc' = "returned" /\ result' = "Err" /\ issues' = issues
    /\ UNCHANGED <<format_result, issues_by_file, spawned>>
    /\ UNCHANGED chanVars
    /\ UNCHANGED taskVars

\* lines 58-62: group the issues (the Vec is moved into group_issues_by_file),
\* create the client and the channel
group_issues ==
    /\ pc = "group"
    /\ issues_by_file' = group_issues_by_file(issues)
    /\ issues' = <<>>
    /\ tx_held' = {"run"}
    /\ pc' = "spawn"
    /\ UNCHANGED <<result, format_result, exit_code, spawned, chan, received>>
    /\ UNCHANGED taskVars

-----------------------------------------------------------------------------
(* run, lines 63-113: the fan-out and the drain *)

\* one iteration of `for (filename, file_issues) in issues_by_file`, in the
\* HashMap's (arbitrary) order: clone tx, task::spawn
spawn(f) ==
    /\ pc = "spawn"
    /\ f \in DOMAIN issues_by_file
    /\ f \notin spawned
    /\ spawned' = spawned \cup {f}
    /\ tx_held' = tx_held \cup {f}
    /\ task' = [task EXCEPT ![f] = "body"]
    /\ state' = [state EXCEPT ![f] = "Reading"]
    /\ UNCHANGED <<pc, result, format_result, exit_code, issues, issues_by_file, chan, received>>
    /\ UNCHANGED <<file_content, idx, disk, reads, asked, requests, replies, diffs, responses, writes, sent>>

\* mutant of drop_tx: run goes on to the drain still holding its Sender
drop_tx_forgotten ==
    /\ pc = "spawn"
    /\ spawned = DOMAIN issues_by_file
    /\ pc' = "drain"
    /\ UNCHANGED <<result, format_result, exit_code, issues, issues_by_file, spawned>>
    /\ UNCHANGED chanVars
    /\ UNCHANGED taskVars

\* drop(tx) once the loop is over
drop_tx ==
    /\ pc = "spawn"
    /\ spawned = DOMAIN issues_by_file
    /\ tx_held' = tx_held \ {"run"}
    /\ pc' = "drain"
    /\ UNCHANGED <<result, format_result, exit_code, issues, issues_by_file, spawned, chan, received>>
    /\ UNCHANGED taskVars

\* rx.recv().await returns Some(()): a buffered message
recv_some ==
    /\ pc = "drain"
    /\ chan > 0
    /\ chan' = chan - 1
    /\ received' = received + 1
    /\ UNCHANGED <<pc, result, format_result, exit_code, issues, issues_by_file, spawned, tx_held>>
    /\ UNCHANGED taskVars

\* mutant of ChannelClosed: the drain stops as soon as the buffer is empty
ChannelEmpty == chan = 0

\* when rx.recv() yields None: the buffer is empty and every Sender is dropped
ChannelClosed == chan = 0 /\ tx_held = {}

\* mutant of RunReturn: a file-level failure is propagated as the run's error
RunReturnFailFast ==
    IF \E f \in spawned : state[f] \in {"ReadFailed", "WriteFailed"} THEN "Err" ELSE "Ok"

\* line 113: Ok(()), whatever the tasks met
RunReturn == "Ok"

\* rx.recv().await returns None: the loop ends and run returns
recv_none ==
    /\ pc = "drain"
    /\ ChannelClosed
    /\ pc' = "returned"
    /\ result' = RunReturn
    /\ UNCHANGED <<format_result, exit_code, issues, issues_by_file, spawned>>
    /\ UNCHANGED chanVars
    /\ UNCHANGED taskVars

-----------------------------------------------------------------------------
(* The spawned closure of file f, lines 68-106 *)

orchVars == <<pc, result, format_result, exit_code, issues, issues_by_file, spawned>>

\* mutant of task_read: the completion signal is sent from the Ok arm only,
\* a failed read ends the closure without it
task_read_no_signal(f) ==
    /\ task[f] = "body"
    /\ state[f] = "Reading"
    /\ \E ok \in BOOLEAN :
          IF ok
          THEN /\ file_content' = [file_content EXCEPT ![f] = disk[f]]
               /\ reads' = [reads EXCEPT ![f] = Append(@, [ok |-> TRUE, content |-> disk[f]])]
               /\ state' = [state EXCEPT ![f] = "Fixing"]
               /\ task' = task
          ELSE /\ reads' = [reads EXCEPT ![f] = Append(@, [ok |-> FALSE])]
               /\ state' = [state EXCEPT ![f] = "ReadFailed"]
               /\ task' = [task EXCEPT ![f] = "exit"]
               /\ UNCHANGED file_content
    /\ UNCHANGED <<idx, disk, asked, requests, replies, diffs, responses, writes, sent>>
    /\ UNCHANGED orchVars
    /\ UNCHANGED chanVars

\* mutant of task_read: a failed read goes on with the empty content
\* (read_to_string(..).unwrap_or_default())
task_read_or_default(f) ==
    /\ task[f] = "body"
    /\ state[f] = "Reading"
    /\ \E ok \in BOOLEAN :
          /\ file_content' = [file_content EXCEPT ![f] = IF ok THEN disk[f] ELSE <<>>]
          /\ reads' = [reads EXCEPT ![f] =
                          Append(@, IF ok THEN [ok |-> TRUE, content |-> disk[f]] ELSE [ok |-> FALSE])]
    /\ state' = [state EXCEPT ![f] = "Fixing"]
    /\ UNCHANGED <<task, idx, disk, asked, requests, replies, diffs, responses, writes, sent>>
    /\ UNCHANGED orchVars
    /\ UNCHANGED chanVars

\* fs::read_to_string(&filename): Ok(file_content) or Err
task_read(f) ==
    /\ task[f] = "body"
    /\ state[f] = "Reading"
    /\ \E ok \in BOOLEAN :
          IF ok
          THEN /\ file_content' = [file_content EXCEPT ![f] = disk[f]]
               /\ reads' = [reads EXCEPT ![f] = Append(@, [ok |-> TRUE, content |-> disk[f]])]
               /\ state' = [state EXCEPT ![f] = "Fixing"]
               /\ task' = task
          ELSE /\ reads' = [reads EXCEPT ![f] = Append(@, [ok |-> FALSE])]
               /\ state' = [state EXCEPT ![f] = "ReadFailed"]
               /\ task' = [task EXCEPT ![f] = "send"]
               /\ UNCHANGED file_content
    /\ UNCHANGED <<idx, disk, asked, requests, replies, diffs, responses, writes, sent>>
    /\ UNCHANGED orchVars
    /\ UNCHANGED chanVars

\* mutant of LoopDone: the loop is left after its first iteration (a stray break)
LoopDoneAfterFirst(f) == idx[f] >= 1

\* `for issue in file_issues` has no issue left
LoopDone(f) == idx[f] >= Len(issues_by_file[f])

\* mutant of task_fix_request: the requests of a file are all sent without
\* awaiting the answers (the calls are collected and joined)
task_fix_request_eager(f) ==
    /\ task[f] = "body"
    /\ state[f] \in {"Fixing", "Awaiting"}
    /\ Len(requests[f]) < Len(issues_by_file[f])
    /\ asked' = [asked EXCEPT ![f] = Append(@, issues_by_file[f][Len(requests[f]) + 1])]
    /\ requests' = [requests EXCEPT ![f] =
                      Append(@, Prompt(issues_by_file[f][Len(requests[f]) + 1], file_content[f]))]
    /\ state' = [state EXCEPT ![f] = "Awaiting"]
    /\ UNCHANGED <<task, file_content, idx, disk, reads, replies, diffs, responses, writes, sent>>
    /\ UNCHANGED orchVars
    /\ UNCHANGED chanVars

\* the next issue of file_issues: ask_chatgpt_for_fix(.., &issue, &file_content)
\* sends its request and awaits the answer
task_fix_request(f) ==
    /\ task[f] = "body"
    /\ state[f] = "Fixing"
    /\ ~LoopDone(f)
    /\ asked' = [asked EXCEPT ![f] = Append(@, issues_by_file[f][idx[f] + 1])]
    /\ requests' = [requests EXCEPT ![f] =
                      Append(@, Prompt(issues_by_file[f][idx[f] + 1], file_content[f]))]
    /\ state' = [state EXCEPT ![f] = "Awaiting"]
    /\ UNCHANGED <<task, file_content, idx, disk, reads, replies, diffs, responses, writes, sent>>
    /\ UNCHANGED orchVars
    /\ UNCHANGED chanVars

\* mutant of NextContent: the fixed content is printed but never adopted
NextContentStale(current, res) == current

\* mutant of NextContent: a failed fix empties the content
\* (file_content = result.unwrap_or_default())
NextContentClobber(current, res) == IF res.ok THEN res.content ELSE <<>>

\* the `match` on the fix result, lines 86-93: the content the loop goes on with
NextContent(current, res) == IF res.ok THEN res.content ELSE current

\* the answer resp arrives: Ok(fixed_content) is diffed against file_content
\* and replaces it, Err leaves it; either way the loop goes on to the next issue
fix_response(f, resp) ==
    /\ task[f] = "body"
    /\ state[f] = "Awaiting"
    /\ LET res == FixResult(resp)
       IN  /\ responses' = [responses EXCEPT ![f] = Append(@, res)]
           /\ diffs' = [diffs EXCEPT ![f] =
                           IF res.ok
                           THEN Append(@, [original |-> file_content[f],
                                           fixed    |-> res.content,
                                           out      |-> print_diff(file_content[f], res.content)])
                           ELSE @]
           /\ file_content' = [file_content EXCEPT ![f] = NextContent(@, res)]
    /\ idx' = [idx EXCEPT ![f] = @ + 1]
    /\ state' = [state EXCEPT ![f] = "Fixing"]
    /\ UNCHANGED <<task, disk, reads, asked, requests, writes, sent>>
    /\ UNCHANGED orchVars
    /\ UNCHANGED chanVars

\* mutant of task_fix_response: a failed issue is asked again
task_fix_response_retry(f) ==
    /\ task[f] = "body"
    /\ state[f] = "Awaiting"
    /\ \E resp \in Responses :
          LET res == FixResult(resp)
          IN  /\ responses' = [responses EXCEPT ![f] = Append(@, res)]
              /\ file_content' = [file_content EXCEPT ![f] = NextContent(@, res)]
              /\ idx' = [idx EXCEPT ![f] = IF res.ok THEN @ + 1 ELSE @]
    /\ state' = [state EXCEPT ![f] = "Fixing"]
    /\ UNCHANGED <<task, disk, reads, asked, requests, replies, diffs, writes, sent>>
    /\ UNCHANGED orchVars
    /\ UNCHANGED chanVars

\* mutant of task_fix_response: the tasks keep the content in one shared buffer
task_fix_response_shared(f) ==
    /\ task[f] = "body"
    /\ state[f] = "Awaiting"
    /\ \E resp \in Responses :
          LET res == FixResult(resp)
          IN  /\ responses' = [responses EXCEPT ![f] = Append(@, res)]
              /\ file_content' = [g \in DOMAIN file_content |-> NextContent(file_content[f], res)]
    /\ idx' = [idx EXCEPT ![f] = @ + 1]
    /\ state' = [state EXCEPT ![f] = "Fixing"]
    /\ UNCHANGED <<task, disk, reads, asked, requests, replies, diffs, writes, sent>>
    /\ UNCHANGED orchVars
    /\ UNCHANGED chanVars

\* the awaited answer of the fix service arrives, lines 85-94
task_fix_response(f) ==
    /\ \E resp \in Responses : fix_response(f, resp)
    /\ UNCHANGED replies

\* task_fix_response, the raw answer kept in replies
task_fix_response_logged(f) ==
    /\ \E resp \in Responses :
          /\ fix_response(f, resp)
          /\ replies' = [replies EXCEPT ![f] = Append(@, resp)]

\* mutant of task_write: the file is written only when some fix succeeded
task_write_if_changed(f) ==
    /\ task[f] = "body"
    /\ state[f] = "Fixing"
    /\ LoopDone(f)
    /\ IF \E k \in DOMAIN responses[f] : responses[f][k].ok
       THEN \E ok \in BOOLEAN :
               /\ writes' = [writes EXCEPT ![f] = Append(@, [content |-> file_content[f], ok |-> ok])]
               /\ IF ok
                  THEN /\ disk' = [disk EXCEPT ![f] = file_content[f]]
                       /\ state' = [state EXCEPT ![f] = "Done"]
                  ELSE /\ disk' \in {disk, [disk EXCEPT ![f] = <<>>]}
                       /\ state' = [state EXCEPT ![f] = "WriteFailed"]
       ELSE /\ state' = [state EXCEPT ![f] = "Done"]
            /\ UNCHANGED <<writes, disk>>
    /\ task' = [task EXCEPT ![f] = "send"]
    /\ UNCHANGED <<file_content, idx, reads, asked, requests, replies, diffs, responses, sent>>
    /\ UNCHANGED orchVars
    /\ UNCHANGED chanVars

\* mutant of task_write: an empty result is not written, the content read is
\* written back in its place
task_write_nonempty(f) ==
    /\ task[f] = "body"
    /\ state[f] = "Fixing"
    /\ LoopDone(f)
    /\ LET content == IF file_content[f] = <<>> THEN reads[f][1].content ELSE file_content[f]
       IN  \E ok \in BOOLEAN :
              /\ writes' = [writes EXCEPT ![f] = Append(@, [content |-> content, ok |-> ok])]
              /\ IF ok
                 THEN /\ disk' = [disk EXCEPT ![f] = content]
                      /\ state' = [state EXCEPT ![f] = "Done"]
                 ELSE /\ disk' \in {disk, [disk EXCEPT ![f] = <<>>]}
                      /\ state' = [state EXCEPT ![f] = "WriteFailed"]
    /\ task' = [task EXCEPT ![f] = "send"]
    /\ UNCHANGED <<file_content, idx, reads, asked, requests, replies, diffs, responses, sent>>
    /\ UNCHANGED orchVars
    /\ UNCHANGED chanVars

\* the loop is over: fs::write(&filename, file_content). A failed write leaves
\* the file as it was or truncated.
task_write(f) ==
    /\ task[f] = "body"
    /\ state[f] = "Fixing"
    /\ LoopDone(f)
    /\ \E ok \in BOOLEAN :
          /\ writes' = [writes EXCEPT ![f] = Append(@, [content |-> file_content[f], ok |-> ok])]
          /\ IF ok
             THEN /\ disk' = [disk EXCEPT ![f] = file_content[f]]
                  /\ state' = [state EXCEPT ![f] = "Done"]
             ELSE /\ disk' \in {disk, [disk EXCEPT ![f] = <<>>]}
                  /\ state' = [state EXCEPT ![f] = "WriteFailed"]
    /\ task' = [task EXCEPT ![f] = "send"]
    /\ UNCHANGED <<file_content, idx, reads, asked, requests, replies, diffs, responses, sent>>
    /\ UNCHANGED orchVars
    /\ UNCHANGED chanVars

\* tx.send(()).await: waits while the channel is full
task_send(f) ==
    /\ task[f] = "send"
    /\ chan < ChannelCap
    /\ chan' = chan + 1
    /\ sent' = [sent EXCEPT ![f] = @ + 1]
    /\ task' = [task EXCEPT ![f] = "exit"]
    /\ UNCHANGED <<state, file_content, idx, disk, reads, asked, requests, replies, diffs, responses, writes>>
    /\ UNCHANGED <<tx_held, received>>
    /\ UNCHANGED orchVars

\* the closure ends and its Sender clone is dropped
task_exit(f) ==
    /\ task[f] = "exit"
    /\ task' = [task EXCEPT ![f] = "ended"]
    /\ tx_held' = tx_held \ {f}
    /\ UNCHANGED <<state, file_content, idx, disk, reads, asked, requests, replies, diffs, responses, writes, sent>>
    /\ UNCHANGED <<chan, received>>
    /\ UNCHANGED orchVars

-----------------------------------------------------------------------------

Next ==
    \/ run_ruff_format
    \/ run_ruff_check
    \/ group_issues
    \/ \E f \in Files : spawn(f)
    \/ drop_tx
    \/ recv_some
    \/ recv_none
    \/ \E f \in Files : task_read(f)
    \/ \E f \in Files : task_fix_request(f)
    \/ \E f \in Files : task_fix_response(f)
    \/ \E f \in Files : task_write(f)
    \/ \E f \in Files : task_send(f)
    \/ \E f \in Files : task_exit(f)

Spec == Init /\ [][Next]_vars

-----------------------------------------------------------------------------
(* The grouping alone: the checker has reported one of GroupInputs and run *)
(* is about to group it.                                                   *)

InitGroup ==
    /\ pc = "group"
    /\ result = "none"
    /\ format_result = "Ok"
    /\ exit_code = <<1>>
    /\ issues \in GroupInputs
    /\ issues_by_file = EmptyMap
    /\ spawned = {}
    /\ tx_held = {}
    /\ chan = 0
    /\ received = 0
    /\ task = [f \in Files |-> "none"]
    /\ state = [f \in Files |-> "NotSpawned"]
    /\ file_content = [f \in Files |-> <<>>]
    /\ idx = [f \in Files |-> 0]
    /\ disk \in [Files -> Contents]
    /\ reads = [f \in Files |-> <<>>]
    /\ asked = [f \in Files |-> <<>>]
    /\ requests = [f \in Files |-> <<>>]
    /\ replies = [f \in Files |-> <<>>]
    /\ diffs = [f \in Files |-> <<>>]
    /\ responses = [f \in Files |-> <<>>]
    /\ writes = [f \in Files |-> <<>>]
    /\ sent = [f \in Files |-> 0]

SpecGroup == InitGroup /\ [][group_issues]_vars

-----------------------------------------------------------------------------
(* print_diff alone: it is called on any two contents of DiffContents, the *)
(* call kept in diffs as the calls of a task are.                          *)

\* every file holds "b\na"
FixDisk == [f \in Files |-> <<"b", "\n", "a">>]

DiffChars == {"a", "b", "\n"}

\* "a\nb\nc" and "a\nx\nc"
ExampleOriginal == <<"a", "\n", "b", "\n", "c">>
ExampleFixed == <<"a", "\n", "x", "\n", "c">>

DiffContents == ListsUpTo(DiffChars, MaxDiffLen) \cup {ExampleOriginal, ExampleFixed}

InitDiff ==
    /\ pc = "format"
    /\ result = "none"
    /\ format_result = "none"
    /\ exit_code = NoCode
    /\ issues = <<>>
    /\ issues_by_file = EmptyMap
    /\ spawned = {}
    /\ tx_held = {}
    /\ chan = 0
    /\ received = 0
    /\ task = [f \in Files |-> "none"]
    /\ state = [f \in Files |-> "NotSpawned"]
    /\ file_content = [f \in Files |-> <<>>]
    /\ idx = [f \in Files |-> 0]
    /\ disk = FixDisk
    /\ reads = [f \in Files |-> <<>>]
    /\ asked = [f \in Files |-> <<>>]
    /\ requests = [f \in Files |-> <<>>]
    /\ replies = [f \in Files |-> <<>>]
    /\ diffs = [f \in Files |-> <<>>]
    /\ responses = [f \in Files |-> <<>>]
    /\ writes = [f \in Files |-> <<>>]
    /\ sent = [f \in Files |-> 0]

\* RuffFixer::print_diff(&original, &fixed)
diff_step ==
    /\ \A f \in Files : diffs[f] = <<>>
    /\ \E f \in Files, original \in DiffContents, fixed \in DiffContents :
          diffs' = [diffs EXCEPT ![f] = <<[original |-> original,
                                          fixed    |-> fixed,
                                          out      |-> print_diff(original, fixed)]>>]
    /\ UNCHANGED <<task, state, file_content, idx, disk, reads, asked, requests, replies,
                   responses, writes, sent>>
    /\ UNCHANGED orchVars
    /\ UNCHANGED chanVars

SpecDiff == InitDiff /\ [][diff_step]_vars

-----------------------------------------------------------------------------
(* The fan-out alone: the checker has reported one of FixInputs, whose     *)
(* issues differ in their rows, on a tree of two-line files.               *)

FixInputs == ListsUpTo(IssuesWithRows(MaxFixRow), MaxFixIssues)

InitFix ==
    /\ pc = "group"
    /\ result = "none"
    /\ format_result = "Ok"
    /\ exit_code = <<1>>
    /\ issues \in FixInputs
    /\ issues_by_file = EmptyMap
    /\ spawned = {}
    /\ tx_held = {}
    /\ chan = 0
    /\ received = 0
    /\ task = [f \in Files |-> "none"]
    /\ state = [f \in Files |-> "NotSpawned"]
    /\ file_content = [f \in Files |-> <<>>]
    /\ idx = [f \in Files |-> 0]
    /\ disk = FixDisk
    /\ reads = [f \in Files |-> <<>>]
    /\ asked = [f \in Files |-> <<>>]
    /\ requests = [f \in Files |-> <<>>]
    /\ replies = [f \in Files |-> <<>>]
    /\ diffs = [f \in Files |-> <<>>]
    /\ responses = [f \in Files |-> <<>>]
    /\ writes = [f \in Files |-> <<>>]
    /\ sent = [f \in Files |-> 0]

NextFix ==
    \/ group_issues
    \/ \E f \in Files : spawn(f)
    \/ drop_tx
    \/ recv_some
    \/ recv_none
    \/ \E f \in Files : task_read(f)
    \/ \E f \in Files : task_fix_request(f)
    \/ \E f \in Files : task_fix_response(f)
    \/ \E f \in Files : task_write(f)
    \/ \E f \in Files : task_send(f)
    \/ \E f \in Files : task_exit(f)

SpecFix == InitFix /\ [][NextFix]_vars

\* the same run, the raw answers of the fix service kept beside their results
NextClient ==
    \/ group_issues
    \/ \E f \in Files : spawn(f)
    \/ drop_tx
    \/ recv_some
    \/ recv_none
    \/ \E f \in Files : task_read(f)
    \/ \E f \in Files : task_fix_request(f)
    \/ \E f \in Files : task_fix_response_logged(f)
    \/ \E f \in Files : task_write(f)
    \/ \E f \in Files : task_send(f)
    \/ \E f \in Files : task_exit(f)

SpecClient == InitFix /\ [][NextClient]_vars

-----------------------------------------------------------------------------
(* The fan-out and the drain under the scheduling of the runtime: run is   *)
(* polled by block_on and every spawned task by a worker whenever it can   *)
(* proceed, and the file system and the fix service answer every call.     *)
(* Explored on runs of zero, one and two files, and on a run of more files *)
(* than the channel holds, taken at the end of its spawn loop.             *)

\* the issue the checker reports for file f
IssueOf(f) == [filename |-> f, code |-> "E501", message |-> "line too long",
               location |-> [row |-> 1, column |-> 1]]

\* the checker's outputs: no issue (exit 1 with an empty array), one file, two files
LiveInputs == {<<>>,
               <<IssueOf("foo.py")>>,
               <<IssueOf("foo.py"), IssueOf("foo.py")>>,
               <<IssueOf("foo.py"), IssueOf("bar.py")>>}

\* twelve files, two more than the channel holds
ManyFiles == {"f01.py", "f02.py", "f03.py", "f04.py", "f05.py", "f06.py",
              "f07.py", "f08.py", "f09.py", "f10.py", "f11.py", "f12.py"}

\* the tasks that have not sent their signal yet
Waiting == {"f09.py", "f10.py", "f11.py", "f12.py"}

\* run is about to group the issues of LiveInputs
InitLive ==
    /\ pc = "group"
    /\ result = "none"
    /\ format_result = "Ok"
    /\ exit_code = <<1>>
    /\ issues \in LiveInputs
    /\ issues_by_file = EmptyMap
    /\ spawned = {}
    /\ tx_held = {}
    /\ chan = 0
    /\ received = 0
    /\ task = [f \in Files |-> "none"]
    /\ state = [f \in Files |-> "NotSpawned"]
    /\ file_content = [f \in Files |-> <<>>]
    /\ idx = [f \in Files |-> 0]
    /\ disk = FixDisk
    /\ reads = [f \in Files |-> <<>>]
    /\ asked = [f \in Files |-> <<>>]
    /\ requests = [f \in Files |-> <<>>]
    /\ replies = [f \in Files |-> <<>>]
    /\ diffs = [f \in Files |-> <<>>]
    /\ responses = [f \in Files |-> <<>>]
    /\ writes = [f \in Files |-> <<>>]
    /\ sent = [f \in Files |-> 0]

\* the spawn loop has spawned the tasks of ManyFiles and drop(tx) is next; no
\* file could be read; eight tasks have sent their signal and ended, the
\* four of Waiting are at tx.send(())
InitDrain ==
    /\ pc = "spawn"
    /\ result = "none"
    /\ format_result = "Ok"
    /\ exit_code = <<1>>
    /\ issues = <<>>
    /\ issues_by_file = [f \in ManyFiles |-> <<IssueOf(f)>>]
    /\ spawned = ManyFiles
    /\ tx_held = {"run"} \cup Waiting
    /\ chan = Cardinality(ManyFiles \ Waiting)
    /\ received = 0
    /\ task = [f \in ManyFiles |-> IF f \in Waiting THEN "send" ELSE "ended"]
    /\ state = [f \in ManyFiles |-> "ReadFailed"]
    /\ file_content = [f \in ManyFiles |-> <<>>]
    /\ idx = [f \in ManyFiles |-> 0]
    /\ disk = [f \in ManyFiles |-> <<"b", "\n", "a">>]
    /\ reads = [f \in ManyFiles |-> <<[ok |-> FALSE]>>]
    /\ asked = [f \in ManyFiles |-> <<>>]
    /\ requests = [f \in ManyFiles |-> <<>>]
    /\ replies = [f \in ManyFiles |-> <<>>]
    /\ diffs = [f \in ManyFiles |-> <<>>]
    /\ responses = [f \in ManyFiles |-> <<>>]
    /\ writes = [f \in ManyFiles |-> <<>>]
    /\ sent = [f \in ManyFiles |-> IF f \in Waiting THEN 0 ELSE 1]

\* the steps of run from the grouping on
run_steps ==
    \/ group_issues
    \/ \E f \in DOMAIN task : spawn(f)
    \/ drop_tx
    \/ recv_some
    \/ recv_none

\* the steps of the task spawned for file f
file_task(f) ==
    \/ task_read(f)
    \/ task_fix_request(f)
    \/ task_fix_response(f)
    \/ task_write(f)
    \/ task_send(f)
    \/ task_exit(f)

NextLive ==
    \/ group_issues
    \/ \E f \in DOMAIN task : spawn(f)
    \/ drop_tx
    \/ recv_some
    \/ recv_none
    \/ \E f \in DOMAIN task : task_read(f)
    \/ \E f \in DOMAIN task : task_fix_request(f)
    \/ \E f \in DOMAIN task : task_fix_response(f)
    \/ \E f \in DOMAIN task : task_write(f)
    \/ \E f \in DOMAIN task : task_send(f)
    \/ \E f \in DOMAIN task : task_exit(f)

\* run and every spawned task keep being scheduled while they can proceed
Fairness ==
    /\ WF_vars(run_steps)
    /\ \A f \in Files \cup ManyFiles : WF_vars(f \in DOMAIN task /\ file_task(f))

SpecLive == (InitLive \/ InitDrain) /\ [][NextLive]_vars /\ Fairness

-----------------------------------------------------------------------------
(* Vocabulary of the properties *)

\* the number of issues assigned to file f
NumIssues(f) == IF f \in DOMAIN issues_by_file THEN Len(issues_by_file[f]) ELSE 0

\* the initial read of f succeeded / failed
ReadOk(f) == reads[f] # <<>> /\ reads[f][1].ok
ReadErr(f) == \E i \in DOMAIN reads[f] : ~reads[f][i].ok

\* the closure of f is past its body (lines 69-104)
BodyOver(f) == task[f] \in {"send", "exit", "ended"}

Terminal == {"Done", "ReadFailed", "WriteFailed"}

\* the current content of f after its first j fix calls have returned: the
\* content of the latest successful one, else the content read from disk
RECURSIVE CurrentAfter(_, _)
CurrentAfter(f, j) ==
    IF j = 0 THEN reads[f][1].content
    ELSE IF responses[f][j].ok THEN responses[f][j].content
    ELSE CurrentAfter(f, j - 1)

-----------------------------------------------------------------------------
(* C1: sequential consistency.  The content put in the k-th fix request of *)
(* a file is the content returned by the latest successful fix among the   *)
(* k-1 earlier calls of that file, which have all returned, or the content *)
(* read from disk when none of them succeeded.                             *)
C1_SequentialConsistency ==
    \A f \in Files : \A k \in 1..Len(requests[f]) :
        /\ ReadOk(f)
        /\ Len(responses[f]) >= k - 1
        /\ requests[f][k].content = CurrentAfter(f, k - 1)

\* a second request is out after a first fix that changed the content
C1_Witness ==
    \E f \in Files :
        /\ Len(requests[f]) = 2
        /\ responses[f][1].ok
        /\ responses[f][1].content # reads[f][1].content
        /\ requests[f][2].content = responses[f][1].content

-----------------------------------------------------------------------------
(* C2 as stated: when run has returned, every dispatched file has been     *)
(* written exactly once, also when its initial read failed.                *)
C2_SingleWriteAlways ==
    \A f \in spawned : pc = "returned" => Len(writes[f]) = 1

(* C2, amended: a dispatched file whose initial read succeeded is written  *)
(* exactly once by the time its task leaves the body, hence when run has   *)
(* returned, after all its issues have been attempted and however many     *)
(* fixes succeeded; a file whose initial read failed is never written.     *)
C2_SingleWriteIfRead ==
    \A f \in spawned :
        /\ (BodyOver(f) \/ pc = "returned") =>
               Len(writes[f]) = (IF ReadOk(f) THEN 1 ELSE 0)
        /\ writes[f] # <<>> => Len(responses[f]) = NumIssues(f)

\* run has returned, a file with two issues of which no fix succeeded is written once
C2_Witness ==
    /\ pc = "returned"
    /\ \E f \in spawned :
          /\ NumIssues(f) = 2
          /\ Len(responses[f]) = 2
          /\ \A k \in 1..2 : ~responses[f][k].ok
          /\ Len(writes[f]) = 1

-----------------------------------------------------------------------------
(* C3: in every state a file has been written at most once, and it has     *)
(* been written only if a fix call has been made and has returned for      *)
(* every issue assigned to it.                                             *)
C3_WriteOnceAfterAll ==
    \A f \in Files :
        /\ Len(writes[f]) <= 1
        /\ writes[f] # <<>> =>
              /\ f \in spawned
              /\ Len(requests[f]) = NumIssues(f)
              /\ Len(responses[f]) = NumIssues(f)

\* a file with two issues has been written
C3_Witness ==
    \E f \in Files : NumIssues(f) = 2 /\ Len(writes[f]) = 1 /\ state[f] = "Done"

-----------------------------------------------------------------------------
(* C4: best-effort continuation.  After a failed fix call the current      *)
(* content is the one that call was given, the task is not stopped (the    *)
(* next issue, if any, can be requested) and the next request carries      *)
(* that same content; a task of a read file that has left the body has     *)
(* attempted every issue.                                                  *)
C4_BestEffort ==
    \A f \in Files :
        /\ \A k \in 1..Len(responses[f]) :
              ~responses[f][k].ok =>
                  /\ k = Len(responses[f]) => file_content[f] = requests[f][k].content
                  /\ k < Len(requests[f]) => requests[f][k + 1].content = requests[f][k].content
                  /\ (k = Len(requests[f]) /\ k < NumIssues(f)) =>
                         /\ task[f] = "body"
                         /\ state[f] = "Fixing"
                         /\ ENABLED task_fix_request(f)
        /\ (ReadOk(f) /\ BodyOver(f)) =>
              /\ Len(requests[f]) = NumIssues(f)
              /\ Len(responses[f]) = NumIssues(f)

\* the second issue is requested after the first fix of a non-empty file failed
C4_Witness ==
    \E f \in Files :
        /\ Len(requests[f]) = 2
        /\ ~responses[f][1].ok
        /\ requests[f][1].content # <<>>
        /\ requests[f][2].content = requests[f][1].content

-----------------------------------------------------------------------------
(* C5: when run has returned, every spawned task has finished: it is in    *)
(* Done, ReadFailed or WriteFailed and its closure has ended.              *)
C5_ReturnAfterAllTasks ==
    pc = "returned" =>
        \A f \in spawned : state[f] \in Terminal /\ task[f] = "ended"

\* run has returned after two tasks, one of which failed to read
C5_Witness ==
    /\ pc = "returned"
    /\ \E f, g \in spawned : state[f] = "ReadFailed" /\ state[g] = "Done"

-----------------------------------------------------------------------------
\* m groups the list: its keys are the filenames of the list, and the group of
\* a filename holds exactly the issues of that filename, in the list's order
RECURSIVE SumLen(_, _)
SumLen(m, keys) ==
    IF keys = {} THEN 0
    ELSE LET k == CHOOSE x \in keys : TRUE
         IN  Len(m[k]) + SumLen(m, keys \ {k})

IsGrouping(list, m) ==
    /\ DOMAIN m = {list[i].filename : i \in DOMAIN list}
    /\ \A f \in DOMAIN m : m[f] = SelectSeq(list, LAMBDA x : x.filename = f)
    /\ SumLen(m, DOMAIN m) = Len(list)

(* C6: grouping.  The map group_issues_by_file builds has one group per    *)
(* distinct filename of the list, each issue is in the group of its        *)
(* filename and in no other, none is dropped or deduplicated, and a group  *)
(* keeps the list's relative order.                                        *)
C6_Grouping == [][pc = "group" => IsGrouping(issues, issues_by_file')]_vars

\* two files grouped, a group holding two different issues
C6_Witness ==
    /\ pc = "spawn"
    /\ Cardinality(DOMAIN issues_by_file) = 2
    /\ \E f \in DOMAIN issues_by_file :
          Len(issues_by_file[f]) = 2 /\ issues_by_file[f][1] # issues_by_file[f][2]

-----------------------------------------------------------------------------
(* C7: clean-run short-circuit.  Once the checker has exited with code 0,  *)
(* run has returned Ok, no task is spawned, no file is read or written     *)
(* and no fix request is made.                                             *)
C7_CleanRun ==
    exit_code = <<0>> =>
        /\ pc = "returned"
        /\ result = "Ok"
        /\ spawned = {}
        /\ \A f \in Files :
              /\ task[f] = "none"
              /\ reads[f] = <<>>
              /\ requests[f] = <<>>
              /\ writes[f] = <<>>

\* the checker has exited with code 0
C7_Witness == exit_code = <<0>> /\ pc = "returned"

-----------------------------------------------------------------------------
(* C8: completion protocol.  A task sends at most one completion signal,   *)
(* only once its write has resolved or its read has failed, and has sent   *)
(* one when it ends; every signal sent is buffered or received; when run   *)
(* returns from the drain it has received one signal per dispatched file.  *)
C8_CompletionProtocol ==
    /\ \A f \in Files :
          /\ sent[f] <= 1
          /\ sent[f] = 1 => state[f] \in Terminal /\ (Len(writes[f]) = 1 \/ ReadErr(f))
          /\ task[f] = "ended" => sent[f] = 1
    /\ received + chan = Cardinality({f \in Files : sent[f] >= 1})
    /\ (pc = "returned" /\ exit_code = <<1>> /\ result = "Ok") =>
          /\ spawned = DOMAIN issues_by_file
          /\ chan = 0
          /\ received = Cardinality(spawned)

\* run has returned having received two signals, one from a task whose write failed
C8_Witness ==
    /\ pc = "returned"
    /\ received = 2
    /\ \E f \in spawned : state[f] = "WriteFailed" /\ sent[f] = 1

-----------------------------------------------------------------------------
\* a step of the body of f's closure
TaskStep(f) == task_read(f) \/ task_fix_request(f) \/ task_fix_response(f) \/ task_write(f)

(* C9: file-level error isolation.  Whatever the other tasks met, a task   *)
(* in its body can take its next step; when a file's read or write has     *)
(* failed, any other read file whose task has left the body has had all    *)
(* its issues attempted and its write made; and run returns Ok from the    *)
(* drain.                                                                  *)
C9_ErrorIsolation ==
    /\ \A g \in Files : task[g] = "body" => ENABLED TaskStep(g)
    /\ \A f, g \in spawned :
          (f # g /\ state[f] \in {"ReadFailed", "WriteFailed"} /\ ReadOk(g) /\ BodyOver(g)) =>
              /\ Len(responses[g]) = NumIssues(g)
              /\ Len(writes[g]) = 1
    /\ (pc = "returned" /\ exit_code = <<1>> /\ result # "Panic") => result = "Ok"

\* run has returned Ok, one file's write failed, the other file is fixed and written
C9_Witness ==
    /\ pc = "returned"
    /\ result = "Ok"
    /\ \E f, g \in spawned :
          /\ state[f] = "WriteFailed"
          /\ state[g] = "Done"
          /\ Len(responses[g]) = NumIssues(g)

-----------------------------------------------------------------------------
(* C10: ReadFailed is terminal.  A file whose initial read failed is in    *)
(* ReadFailed for good: no fix request is made for it and it is never      *)
(* written.                                                                *)
C10_ReadFailedTerminal ==
    \A f \in Files :
        ReadErr(f) =>
            /\ state[f] = "ReadFailed"
            /\ BodyOver(f)
            /\ requests[f] = <<>>
            /\ writes[f] = <<>>

\* run has returned after a task whose read failed
C10_Witness ==
    /\ pc = "returned"
    /\ \E f \in spawned : ReadErr(f) /\ task[f] = "ended"

-----------------------------------------------------------------------------
\* no task has been spawned, no fix request made, no file read or written
NoFanOut ==
    /\ spawned = {}
    /\ \A f \in Files :
          /\ task[f] = "none"
          /\ reads[f] = <<>>
          /\ requests[f] = <<>>
          /\ writes[f] = <<>>

(* C11: format before check.  The checker is called, and anything after    *)
(* it happens, only once the formatter has returned success; once the      *)
(* formatter has failed, run has returned an error, the checker has not    *)
(* been called, no task is spawned, no fix request made and no file        *)
(* written.                                                                *)
C11_FormatBeforeCheck ==
    /\ (pc \in {"check", "group", "spawn", "drain"} \/ exit_code # NoCode \/ ~NoFanOut) =>
           format_result = "Ok"
    /\ format_result = "Err" =>
           /\ pc = "returned"
           /\ result = "Err"
           /\ exit_code = NoCode
           /\ NoFanOut

\* the formatter has failed
C11_Witness == format_result = "Err" /\ pc = "returned"

-----------------------------------------------------------------------------
-----------------------------------------------------------------------------
(* C13: one outstanding fix request per file.  In every state a file has   *)
(* at most one request that has not returned, the task awaiting it; the    *)
(* k-th request of a file is made for the k-th issue of the file's group,  *)
(* after the k-1 earlier ones have returned.                               *)
C13_OneRequestInFlight ==
    \A f \in Files :
        /\ Len(requests[f]) - Len(responses[f]) \in {0, 1}
        /\ Len(requests[f]) - Len(responses[f]) = 1 <=> state[f] = "Awaiting"
        /\ Len(asked[f]) = Len(requests[f])
        /\ \A k \in 1..Len(asked[f]) : asked[f][k] = issues_by_file[f][k]

\* the second of two different issues of a file is out, the first has returned
C13_Witness ==
    \E f \in Files :
        /\ Len(requests[f]) = 2
        /\ Len(responses[f]) = 1
        /\ asked[f][1] # asked[f][2]

-----------------------------------------------------------------------------
(* C14: no retries.  A file is read at most once and written at most once; *)
(* the calls of the fix service made for a file are one per issue, in the  *)
(* group's order, so no issue is asked twice, whatever failed; a read file *)
(* whose task has left the body has had exactly one call per issue.        *)
C14_NoRetries ==
    \A f \in Files :
        /\ Len(reads[f]) <= 1
        /\ Len(writes[f]) <= 1
        /\ Len(asked[f]) <= NumIssues(f)
        /\ Len(responses[f]) <= Len(asked[f])
        /\ \A k \in 1..Len(asked[f]) : asked[f][k] = issues_by_file[f][k]
        /\ (ReadOk(f) /\ BodyOver(f)) => Len(asked[f]) = NumIssues(f)
        /\ ReadErr(f) => asked[f] = <<>>

\* run has returned; a fix and the write of a file failed, and were made once
C14_Witness ==
    /\ pc = "returned"
    /\ \E f \in spawned :
          /\ Len(asked[f]) = 1
          /\ ~responses[f][1].ok
          /\ state[f] = "WriteFailed"

-----------------------------------------------------------------------------
(* C17: the offending line.  The line put in the k-th request of a file is *)
(* the line of the content sent with that request at the row of the k-th   *)
(* issue, the row the checker reported, counted from 1; it is the empty    *)
(* line when the content has fewer lines than that row.                    *)
C17_OffendingLine ==
    \A f \in Files : \A k \in 1..Len(requests[f]) :
        LET row == issues_by_file[f][k].location.row
            ls  == lines(requests[f][k].content)
        IN  /\ asked[f][k].location.row = row
            /\ row <= Len(ls) => requests[f][k].line = ls[row]
            /\ row > Len(ls) => requests[f][k].line = <<>>

\* a request is out for row 2 of a content that a fix has cut to one line
C17_Witness ==
    \E f \in Files :
        /\ Len(requests[f]) = 2
        /\ asked[f][2].location.row = 2
        /\ requests[f][1].line = <<"b">>
        /\ Len(lines(requests[f][2].content)) = 1
        /\ requests[f][2].line = <<>>

-----------------------------------------------------------------------------
-----------------------------------------------------------------------------
\* the diff calls made so far
DiffCalls == UNION {{diffs[f][k] : k \in DOMAIN diffs[f]} : f \in DOMAIN diffs}

Removed(l) == [sign |-> "-", line |-> l]
Added(l) == [sign |-> "+", line |-> l]

(* C15 as stated: at every position where both snapshots have a line and   *)
(* the two lines differ, the diff prints the removed original line         *)
(* followed by the added fixed line.                                       *)
C15_DiffEveryDifference ==
    \A d \in DiffCalls :
        LET ol == lines(d.original)
            fl == lines(d.fixed)
        IN  \A i \in (DOMAIN ol) \cap (DOMAIN fl) :
                ol[i] # fl[i] =>
                    \E j \in 1..(Len(d.out) - 1) :
                        d.out[j] = Removed(ol[i]) /\ d.out[j + 1] = Added(fl[i])

(* C15, amended: after its two headers the diff prints, position by        *)
(* position, for each position where the two lines differ (a line missing  *)
(* from the shorter snapshot counting as empty) the removed original line  *)
(* if it is not empty, then the added fixed line if it is not empty, and   *)
(* nothing else; [a,b,c] against [a,x,c] gives exactly "- b", "+ x".       *)
C15_DiffNonEmptyDifferences ==
    \A d \in DiffCalls :
        LET ol   == lines(d.original)
            fl   == lines(d.fixed)
            n    == IF Len(ol) >= Len(fl) THEN Len(ol) ELSE Len(fl)
            o(i) == IF i \in DOMAIN ol THEN ol[i] ELSE <<>>
            x(i) == IF i \in DOMAIN fl THEN fl[i] ELSE <<>>
            rem  == {i \in 1..n : o(i) # x(i) /\ o(i) # <<>>}
            add  == {i \in 1..n : o(i) # x(i) /\ x(i) # <<>>}
            before(i) == Cardinality({k \in rem : k < i}) + Cardinality({k \in add : k < i})
        IN  /\ Len(d.out) = 2 + Cardinality(rem) + Cardinality(add)
            /\ d.out[1] = DiffHeaders[1] /\ d.out[2] = DiffHeaders[2]
            /\ \A i \in rem : d.out[2 + before(i) + 1] = Removed(o(i))
            /\ \A i \in add : d.out[2 + before(i) + (IF i \in rem THEN 2 ELSE 1)] = Added(x(i))
            /\ (d.original = ExampleOriginal /\ d.fixed = ExampleFixed) =>
                   d.out = DiffHeaders \o <<Removed(<<"b">>), Added(<<"x">>)>>

\* an empty first line is replaced: only the added line is printed
C15_Witness ==
    \E d \in DiffCalls :
        /\ d.original = <<"\n", "a">>
        /\ d.fixed = <<"b", "\n", "a">>
        /\ d.out = DiffHeaders \o <<Added(<<"b">>)>>

-----------------------------------------------------------------------------
\* the answer is one of the three failures the fix client is to report
FailureReply(resp) ==
    \/ resp.kind = "transport_error"
    \/ resp.kind = "json" /\ ~resp.success_status
    \/ resp.kind = "json" /\ ~resp.has_content

(* C16: failure cases of the fix client.  When the answer to the k-th call *)
(* of a file is a transport failure, a response with a non-success status  *)
(* or a response without choices[0].message.content, the call returns a    *)
(* failure and the current content of the file is what it was before the   *)
(* call.                                                                   *)
C16_FailureCases ==
    \A f \in Files :
        \A k \in DOMAIN replies[f] :
            FailureReply(replies[f][k]) =>
                /\ ~responses[f][k].ok
                /\ CurrentAfter(f, k) = CurrentAfter(f, k - 1)

-----------------------------------------------------------------------------
\* what shows that the task of f has taken a step: its position, its state,
\* and the number of reads, calls, answers, writes and signals it has made
Progress(f) == <<task[f], state[f], Len(reads[f]), Len(asked[f]), Len(responses[f]),
                 Len(writes[f]), sent[f]>>

\* the content state of f: current content, issue position, content on disk
ContentState(f) == <<file_content[f], idx[f], disk[f]>>

(* C18: no shared content state.  A step in which the task of a file moves *)
(* (its read, a fix call, a fix answer that succeeds or fails, its write,  *)
(* its completion signal) leaves the current content, the issue position   *)
(* and the content on disk of every other file as they were.               *)
C18_Frame ==
    [][\A f \in Files :
          Progress(f)' # Progress(f) =>
              \A g \in Files \ {f} : ContentState(g)' = ContentState(g)]_vars

\* a file has adopted a fix and been written while the task of another file,
\* holding a different content, still awaits its first answer
C18_Witness ==
    \E f \in spawned : \E g \in spawned \ {f} :
        /\ ReadOk(f) /\ ReadOk(g)
        /\ responses[f] # <<>> /\ responses[f][1].ok
        /\ writes[f] # <<>>
        /\ state[g] = "Awaiting" /\ responses[g] = <<>>
        /\ file_content[g] = reads[g][1].content
        /\ file_content[g] # file_content[f]

-----------------------------------------------------------------------------
(* C20: the completion channel cannot deadlock the run.  Once run is past  *)
(* the checker, whatever the number of files (none, fewer than the channel *)
(* holds, more than it holds), every spawned task eventually sends its     *)
(* completion signal and run eventually returns Ok.                        *)
C20_NoDeadlock ==
    (pc \in {"group", "spawn"}) ~>
        (/\ pc = "returned"
         /\ result = "Ok"
         /\ spawned = DOMAIN issues_by_file
         /\ \A f \in spawned : sent[f] = 1 /\ task[f] = "ended")

\* run has returned after receiving more signals than the channel holds
C20_Witness ==
    /\ pc = "returned"
    /\ result = "Ok"
    /\ received > ChannelCap
    /\ \A f \in spawned : sent[f] = 1

====
